---------------------------- MODULE Spec2Model ----------------------------
(***************************************************************************)
(* StockTracker-Pro backend (src/app.py): the indicator routine            *)
(* calculate_technical_indicators and the Flask request handlers.          *)
(*                                                                         *)
(* Number representation.  Prices are decimals; the model keeps them as    *)
(* integers in thousandths (mills): 115.50 is 115500.  A value that is the *)
(* quotient of an integer by a window length is kept as the exact rational *)
(* n/d.  A float-valued slot is a record [tag, n, d]:                      *)
(*   tag = "none"  Python None                                             *)
(*   tag = "nan"   float NaN                                               *)
(*   tag = "num"   the rational n/d (in mills)                             *)
(*   tag = "real"  a finite float whose magnitude the model does not track *)
(*                 (the volatility, an RSI strictly between 0 and 100)     *)
(*   tag = "above" / "below"   the two labels of vs_ma50 / vs_ma200        *)
(* round(x, 2) of a decimal is taken as round-half-even on the decimal     *)
(* value; no formula below depends on how an exact half cent is resolved.  *)
(***************************************************************************)
EXTENDS Integers, Sequences, FiniteSets, TLC

VARIABLES
    historical_df,       \* the DataFrame object handed to calculate_technical_indicators
    current_price,       \* the current price argument
    indicators,          \* what the last call returned ("pending" before any call)
    ncalls,              \* number of calls made on the present DataFrame object
    deepseek_client,     \* module global: TRUE when the AI client was constructed
    TWELVEDATA_API_KEY,  \* module global: TRUE when the search key is configured
    request,             \* the endpoint of the request handled last ("none" before any)
    upstream,            \* what the providers answered to that request, in call order
    outbound,            \* the outbound calls that request made, in order
    steps,               \* the steps of the handler that ran, in order
    response             \* what the handler gave back to the framework

calcVars == <<historical_df, current_price, indicators, ncalls>>

httpVars == <<deepseek_client, TWELVEDATA_API_KEY, request, upstream, outbound, steps, response>>

vars == <<calcVars, httpVars>>

-----------------------------------------------------------------------------
(* Bounds of the model *)

\* longest price series built
MaxN == 201

\* calls made on one DataFrame object
MaxCalls == 2

\* longest list the search provider answers with
MaxResults == 12

-----------------------------------------------------------------------------
(* Cells of a DataFrame column: a number (mills, >= 0), a missing value   *)
(* (JSON null, NaN) or a string that does not parse as a number.           *)

NaNCell == -1

BadCell == -2

IsNum(x) == x >= 0

NoneVal == [tag |-> "none", n |-> 0, d |-> 1]

NaNVal == [tag |-> "nan", n |-> 0, d |-> 1]

RealVal == [tag |-> "real", n |-> 0, d |-> 1]

Num(x) == [tag |-> "num", n |-> x, d |-> 1]

Rat(x, y) == [tag |-> "num", n |-> x, d |-> y]

Label(s) == [tag |-> s, n |-> 0, d |-> 1]

\* s[lo] + ... + s[hi], by halves
RECURSIVE SumRange(_, _, _)
SumRange(s, lo, hi) ==
    IF lo > hi THEN 0
    ELSE IF lo = hi THEN s[lo]
    ELSE LET mid == (lo + hi) \div 2
         IN  SumRange(s, lo, mid) + SumRange(s, mid + 1, hi)

\* historical_df.empty: no rows or no columns
Empty(df) == df.n = 0 \/ df.cols = {}

\* pd.to_numeric(column, errors='coerce').values: unparseable entries become NaN
ToNumericCoerce(col) == [i \in 1..Len(col) |-> IF col[i] = BadCell THEN NaNCell ELSE col[i]]

\* pd.to_numeric(column) with the default errors='raise' raises ValueError on an
\* unparseable entry
ToNumericRaises(col) == \E i \in 1..Len(col) : col[i] = BadCell


-----------------------------------------------------------------------------
(* TA-Lib on a float array.  The wrapper starts at the first non-NaN entry *)
(* (leading NaNs are skipped); a NaN after that enters the running totals  *)
(* and never leaves, so every later output is NaN.  The output at an index *)
(* with fewer than `lookback` usable entries before it is NaN.             *)

LeadingNaN(closes) ==
    IF \A i \in 1..Len(closes) : closes[i] = NaNCell THEN Len(closes)
    ELSE (CHOOSE i \in 1..Len(closes) :
              /\ closes[i] # NaNCell
              /\ \A j \in 1..(i - 1) : closes[j] = NaNCell) - 1

Poisoned(closes) ==
    \E i \in (LeadingNaN(closes) + 1)..Len(closes) : closes[i] = NaNCell

\* TA_SMA's loop over the outputs lo..hi: for each, the entering value is added
\* to the running total, the total is emitted, the trailing value is dropped.
\* The value is the net change of the running total over these steps (the
\* steps are summed by halves of the range).
RECURSIVE SlidingTotal(_, _, _, _)
SlidingTotal(closes, timeperiod, lo, hi) ==
    IF lo > hi THEN 0
    ELSE IF lo = hi THEN closes[lo] - closes[lo - timeperiod + 1]
    ELSE LET mid == (lo + hi) \div 2
         IN  SlidingTotal(closes, timeperiod, lo, mid)
                 + SlidingTotal(closes, timeperiod, mid + 1, hi)

\* variant: the window ends one bar before the last ([-2] for [-1])
SMAPreviousBar(closes, timeperiod) ==
    LET N == Len(closes)
    IN  IF Poisoned(closes) \/ N - LeadingNaN(closes) < timeperiod + 1 THEN NaNVal
        ELSE Rat(SumRange(closes, N - timeperiod, N - 1), timeperiod)

\* talib.SMA(closes, timeperiod)[-1]: the total emitted for the last index,
\* divided by the period
SMA(closes, timeperiod) ==
    LET lead == LeadingNaN(closes)
        N == Len(closes)
        first == SumRange(closes, lead + 1, lead + timeperiod - 1)
    IN  IF Poisoned(closes) \/ N - lead < timeperiod THEN NaNVal
        ELSE Rat(first + SlidingTotal(closes, timeperiod, lead + timeperiod, N - 1)
                     + closes[N],
                 timeperiod)

\* talib.RSI(closes, timeperiod)[-1]: lookback is timeperiod, so timeperiod + 1
\* values are needed.  Wilder's averages of gains and of losses are positive
\* exactly when some gain, some loss, occurred anywhere in the series; the
\* result is 100 * gain / (gain + loss), and 0 when both are 0.
RSI(closes, timeperiod) ==
    LET lead == LeadingNaN(closes)
        diffs == (lead + 2)..Len(closes)
        gain == \E i \in diffs : closes[i] > closes[i - 1]
        loss == \E i \in diffs : closes[i] < closes[i - 1]
    IN  IF Poisoned(closes) \/ Len(closes) - lead < timeperiod + 1 THEN NaNVal
        ELSE IF ~gain THEN Num(0)
        ELSE IF ~loss THEN Num(100000)
        ELSE RealVal

-----------------------------------------------------------------------------
(* calculate_technical_indicators, statement by statement *)

\* variant: the length test is > for >=
MovingAverageStrict(closes, timeperiod) ==
    IF Len(closes) > timeperiod THEN SMA(closes, timeperiod) ELSE NoneVal

\* lines 85-87: talib.SMA(closes, timeperiod=P)[-1] if len(closes) >= P else None
MovingAverage(closes, timeperiod) ==
    IF Len(closes) >= timeperiod THEN SMA(closes, timeperiod) ELSE NoneVal

\* line 90
RsiIndicator(closes) == IF Len(closes) >= 14 THEN RSI(closes, 14) ELSE NoneVal

\* lines 93-94: the day-over-day returns of the last 30 rows, their sample
\* standard deviation times sqrt(252).  A return is finite when both closes
\* are numbers and the earlier one is not 0; a division by 0 gives an
\* infinite return, which makes the deviation NaN; fewer than two finite
\* returns give NaN.  The magnitude is not tracked.
Volatility(c) ==
    LET N == Len(c)
        tail == {i \in 1..N : i > N - 30 /\ i >= 2}
        finite == {i \in tail : IsNum(c[i]) /\ c[i - 1] > 0}
        infinite == {i \in tail : c[i] > 0 /\ c[i - 1] = 0}
    IN  IF infinite # {} \/ Cardinality(finite) < 2 THEN NaNVal ELSE RealVal

\* Series.max() / Series.min(): missing values are skipped; NaN when all are missing
ColMax(col) ==
    LET nums == {i \in 1..Len(col) : IsNum(col[i])}
    IN  IF nums = {} THEN NaNVal
        ELSE Num(col[CHOOSE i \in nums : \A j \in nums : col[j] <= col[i]])

ColMin(col) ==
    LET nums == {i \in 1..Len(col) : IsNum(col[i])}
    IN  IF nums = {} THEN NaNVal
        ELSE Num(col[CHOOSE i \in nums : \A j \in nums : col[j] >= col[i]])

\* Python truth value of the current price argument: None and 0 are false; a
\* non-empty string or list is true
PriceTruthy(cp) == cp.k \in {"str", "badstr", "list"} \/ (cp.k = "num" /\ cp.v # 0)

\* float(current_price) raises ValueError on a string that is no number and
\* TypeError on a list
FloatRaises(cp) == cp.k \in {"badstr", "list"}

\* line 101: float(current_price) if current_price else closes[-1]
CurrentPrice(closes, cp) ==
    IF PriceTruthy(cp) THEN Num(cp.v)
    ELSE (IF closes[Len(closes)] = NaNCell THEN NaNVal ELSE Num(closes[Len(closes)]))

\* Python truth value of a float or None: None and 0.0 are false, NaN is true
Truthy(x) == x.tag \in {"nan", "real"} \/ (x.tag = "num" /\ x.n # 0)

\* a > b on floats: false when either is NaN
Gt(a, b) == a.tag = "num" /\ b.tag = "num" /\ a.n * b.d > b.n * a.d

\* lines 104-112: 'above' / 'below' when the moving average is truthy, else None
Position(price, ma) ==
    IF Truthy(ma)
    THEN (IF Gt(price, ma) THEN Label("above") ELSE Label("below"))
    ELSE NoneVal

\* round(float(x), 2): to the nearest cent (10 mills), an exact half to the even cent
Round2(x) ==
    IF x.tag # "num" THEN x
    ELSE LET unit == 10 * x.d
             q == x.n \div unit
             r == x.n % unit
         IN  Num(10 * (IF 2 * r < unit THEN q
                       ELSE IF 2 * r > unit THEN q + 1
                       ELSE IF q % 2 = 0 THEN q ELSE q + 1))

NumericKeys ==
    {"ma_20", "ma_50", "ma_200", "rsi", "volatility_30d", "high_52w", "low_52w",
     "current_price"}

AllKeys == NumericKeys \cup {"vs_ma50", "vs_ma200"}

EmptyDict == [k \in {} |-> NoneVal]

NoneResult == [kind |-> "None", ind |-> EmptyDict]

Pending == [kind |-> "pending", ind |-> EmptyDict]

\* The statement that raises first, by what it computes ("return" when none does):
\* line 79 KeyError without a 'c' column; line 93 ValueError on an unparseable
\* close; lines 97, 98 KeyError / ValueError on the 'h', 'l' columns; line 101
\* ValueError / TypeError from float(), IndexError from closes[-1] on no rows
RaisesAt(df, cp) ==
    IF "c" \notin df.cols THEN "closes"
    ELSE IF ToNumericRaises(df.c) THEN "returns"
    ELSE IF "h" \notin df.cols \/ ToNumericRaises(df.h) THEN "high_52w"
    ELSE IF "l" \notin df.cols \/ ToNumericRaises(df.l) THEN "low_52w"
    ELSE IF PriceTruthy(cp) /\ FloatRaises(cp) THEN "current_price"
    ELSE IF ~PriceTruthy(cp) /\ df.n = 0 THEN "current_price"
    ELSE "return"

\* the keys of `indicators` assigned before the statement `at` runs
AssignedBefore(at) ==
    CASE at = "closes" -> {}
      [] at = "returns" -> {"ma_20", "ma_50", "ma_200", "rsi"}
      [] at = "high_52w" -> {"ma_20", "ma_50", "ma_200", "rsi", "volatility_30d"}
      [] at = "low_52w" ->
            {"ma_20", "ma_50", "ma_200", "rsi", "volatility_30d", "high_52w"}
      [] at = "current_price" -> NumericKeys \ {"current_price"}
      [] OTHER -> AllKeys

\* lines 79-112: the value each key is assigned, before rounding
Assigned(df, cp, key) ==
    LET closes == ToNumericCoerce(df.c)
    IN  CASE key = "ma_20" -> MovingAverage(closes, 20)
          [] key = "ma_50" -> MovingAverage(closes, 50)
          [] key = "ma_200" -> MovingAverage(closes, 200)
          [] key = "rsi" -> RsiIndicator(closes)
          [] key = "volatility_30d" -> Volatility(df.c)
          [] key = "high_52w" -> ColMax(df.h)
          [] key = "low_52w" -> ColMin(df.l)
          [] key = "current_price" -> CurrentPrice(closes, cp)
          [] key = "vs_ma50" ->
                Position(CurrentPrice(closes, cp), MovingAverage(closes, 50))
          [] key = "vs_ma200" ->
                Position(CurrentPrice(closes, cp), MovingAverage(closes, 200))

\* lines 115-117: the numeric keys that are not None are rounded
Rounded(key, x) == IF key \in NumericKeys /\ x.tag # "none" THEN Round2(x) ELSE x

\* variant: the handler returns the dict built so far
ExceptReturnsPartial(partial) == [kind |-> "dict", ind |-> partial]

\* lines 121-123: the handler prints the exception and returns None
Except(partial) == NoneResult

\* line 93: historical_df['returns'] = ... adds a column to the caller's object
AssignReturns(df) == [df EXCEPT !.cols = @ \cup {"returns"}]

\* variant: only None is turned away, an empty DataFrame is not
GuardNoneOnly(df) == df.isNone

\* line 74: historical_df is None or historical_df.empty
Guard(df) == df.isNone \/ Empty(df)

\* calculate_technical_indicators(historical_df, current_price): what it returns
\* (ret) and the DataFrame object as the call leaves it (df)
calculate_technical_indicators(df, cp) ==
    IF Guard(df) THEN [ret |-> NoneResult, df |-> df]
    ELSE LET at == RaisesAt(df, cp)
             after == IF at \in {"closes", "returns"} THEN df ELSE AssignReturns(df)
         IN  IF at # "return"
             THEN [ret |-> Except([k \in AssignedBefore(at) |-> Assigned(df, cp, k)]),
                   df |-> after]
             ELSE [ret |-> [kind |-> "dict",
                            ind |-> [k \in AllKeys |-> Rounded(k, Assigned(df, cp, k))]],
                   df |-> after]

-----------------------------------------------------------------------------
(* The inputs the function is called on *)

Windows == {14, 20, 30, 50, 200}

\* series lengths: the short ones, every window length and its neighbours, the
\* 25 bars of the spec's example, and the longest
Lengths ==
    {n \in 0..MaxN : \/ n <= 3
                     \/ \E w \in Windows : n \in (w - 1)..(w + 1)
                     \/ n = 25
                     \/ n = MaxN}

\* closes b, b + d, b + 2d, ... (mills)
Ramp(N, b, d) == [i \in 1..N |-> b + d * (i - 1)]

Highs(c) == [i \in 1..Len(c) |-> IF IsNum(c[i]) THEN c[i] + 500 ELSE c[i]]

Lows(c) == [i \in 1..Len(c) |-> IF c[i] >= 500 THEN c[i] - 500 ELSE c[i]]

Frame(c, cols) ==
    [isNone |-> FALSE, n |-> Len(c), cols |-> cols, c |-> c, h |-> Highs(c), l |-> Lows(c)]

NoneFrame == [isNone |-> TRUE, n |-> 0, cols |-> {}, c |-> <<>>, h |-> <<>>, l |-> <<>>]

BarCols == {"c", "h", "l"}

\* well-formed series: numeric bars, all three columns
CleanFrames ==
    {Frame(Ramp(N, b, d), BarCols) : N \in Lengths, b \in {0, 100000}, d \in {0, 3, 1000}}

\* one cell of one column replaced by a missing value, an unparseable string,
\* a zero or a spike
Spoil(df, col, k, x) ==
    CASE col = "c" -> [df EXCEPT !.c[k] = x]
      [] col = "h" -> [df EXCEPT !.h[k] = x]
      [] col = "l" -> [df EXCEPT !.l[k] = x]

SpoiledFrames ==
    UNION {{Spoil(Frame(Ramp(N, 100000, 1000), BarCols), col, k, x) :
                col \in BarCols,
                k \in {j \in {1, 2, N - 20, N} : j >= 1 /\ j <= N},
                x \in {NaNCell, BadCell, 0, 500000}} :
           N \in Lengths \ {0}}

\* a column missing from every bar; bars with no keys at all; no DataFrame
ShortFrames ==
    {Frame(Ramp(N, 100000, 1000), cols) :
         N \in Lengths, cols \in {BarCols \ {"c"}, BarCols \ {"h"}, BarCols \ {"l"}, {}}}
    \cup {NoneFrame}

NoPrice == [k |-> "none", v |-> 0]

Price(x) == [k |-> "num", v |-> x]

\* the current price argument: absent, a number, a numeric string, another string
Prices ==
    {NoPrice, Price(0), Price(124000), Price(100074), Price(4),
     [k |-> "str", v |-> 124000], [k |-> "badstr", v |-> 0]}

Inputs ==
    (CleanFrames \X Prices)
    \cup (SpoiledFrames \X {NoPrice, Price(124000)})
    \cup (ShortFrames \X {NoPrice, Price(124000), [k |-> "badstr", v |-> 0]})

-----------------------------------------------------------------------------
(* The function called directly *)

NoResponse == [http |-> 0, fault |-> FALSE, status |-> "", keys |-> {}, data |-> <<>>]

Idle ==
    /\ request = "none"
    /\ upstream = <<>>
    /\ outbound = <<>>
    /\ steps = <<>>
    /\ response = NoResponse

InitCalc ==
    /\ \E in \in Inputs :
          /\ historical_df = in[1]
          /\ current_price = in[2]
    /\ indicators = Pending
    /\ ncalls = 0
    /\ deepseek_client = FALSE
    /\ TWELVEDATA_API_KEY = FALSE
    /\ Idle

\* indicators = calculate_technical_indicators(historical_df, current_price)
Call ==
    /\ ncalls < MaxCalls
    /\ LET out == calculate_technical_indicators(historical_df, current_price)
       IN  /\ indicators' = out.ret
           /\ historical_df' = out.df
    /\ ncalls' = ncalls + 1
    /\ UNCHANGED <<current_price, httpVars>>

NextCalc == Call

SpecCalc == InitCalc /\ [][NextCalc]_vars

-----------------------------------------------------------------------------
(* The request handlers.  A response is the HTTP status, the value under    *)
(* "status" in its JSON body ("" when the body has none), the keys of the   *)
(* body and, for the list endpoints, the list under "data".  An             *)
(* exception that leaves the handler is a fault: the framework answers 500  *)
(* with a body that is not the handler's JSON.                              *)

Json(http, status, keys) ==
    [http |-> http, fault |-> FALSE, status |-> status, keys |-> keys, data |-> <<>>]

JsonList(http, status, keys, list) ==
    [http |-> http, fault |-> FALSE, status |-> status, keys |-> keys, data |-> list]

Fault == [http |-> 500, fault |-> TRUE, status |-> "", keys |-> {}, data |-> <<>>]

(* What a market-data provider answers to requests.get(...) and .json():    *)
(*   net     "ok", or the request raised Timeout / another RequestException *)
(*   status  the HTTP status code                                           *)
(*   json    "invalid" (.json() raises), "other" (valid JSON that is not an *)
(*           object), "object"                                              *)
(*   code    the object's "code": "zero", "other" or "missing"              *)
(*   data    the object's "data": "missing", "null", "empty_object" ({}),   *)
(*           "empty_list" ([]), "object" (a non-empty object), "list" (a    *)
(*           non-empty list), "scalar" (a non-empty string or a number)     *)
(*   ld      data["ld"] when data is an object: a price argument, or        *)
(*           k = "none" when missing or null                                *)
(*   frame   the DataFrame pd.DataFrame(data) builds when data is a list    *)
Reply(net, status, json, code, data, ld, frame) ==
    [net |-> net, status |-> status, json |-> json, code |-> code, data |-> data,
     ld |-> ld, frame |-> frame]

Answer(status, code, data) == Reply("ok", status, "object", code, data, NoPrice, NoneFrame)

FailedReplies ==
    {Reply("timeout", 0, "invalid", "missing", "missing", NoPrice, NoneFrame),
     Reply("conn", 0, "invalid", "missing", "missing", NoPrice, NoneFrame),
     Reply("ok", 200, "invalid", "missing", "missing", NoPrice, NoneFrame),
     Reply("ok", 502, "invalid", "missing", "missing", NoPrice, NoneFrame),
     Reply("ok", 200, "other", "missing", "missing", NoPrice, NoneFrame),
     Reply("ok", 500, "other", "missing", "missing", NoPrice, NoneFrame),
     Answer(500, "zero", "object"),
     Answer(401, "other", "missing"),
     Answer(200, "other", "null"),
     Answer(200, "missing", "object")}

DataKinds ==
    {"missing", "null", "empty_object", "empty_list", "object", "list", "scalar"}

\* requests.get raised
NetRaises(r) == r.net # "ok"

\* response.json() raised, or api_data.get(...) raised AttributeError because the
\* JSON value is no object
BodyRaises(r) == r.net = "ok" /\ r.json # "object"

\* Python truth value of the "data" value
DataTruthy(r) == r.data \in {"object", "list", "scalar"}

\* api_response.status_code == 200 and api_data.get("code") == 0
ProviderOk(r) == r.status = 200 /\ r.code = "zero"

\* The except clauses of get_stock_quote / get_historical_data (lines 164-169,
\* 216-221): Timeout, then RequestException, then Exception.  jsonIsRequestError
\* tells whether the installed `requests` raises its JSON decoding error as a
\* RequestException subclass (2.27 and later) or as a plain ValueError.
ProxyExcept(r, jsonIsRequestError) ==
    IF r.net = "timeout" THEN Json(504, "error", {"status", "message"})
    ELSE IF r.net = "conn" THEN Json(502, "error", {"status", "message"})
    ELSE IF r.json = "invalid" /\ jsonIsRequestError THEN Json(502, "error", {"status", "message"})
    ELSE Json(500, "error", {"status", "message"})

\* lines 137-169, 188-221: the body of the two proxy handlers; `okKeys` are the
\* keys of the success body
Proxy(r, jsonIsRequestError, okKeys) ==
    IF NetRaises(r) \/ BodyRaises(r) THEN ProxyExcept(r, jsonIsRequestError)
    ELSE IF ProviderOk(r)
         THEN (IF DataTruthy(r) THEN Json(200, "success", okKeys)
               ELSE Json(404, "error", {"status", "message", "code"}))
         ELSE Json(400, "error", {"status", "message", "provider_code"})

QuoteReplies ==
    FailedReplies \cup {Answer(200, "zero", d) : d \in DataKinds}

\* the handler's locals are gone when it returns
DropLocals ==
    /\ historical_df' = NoneFrame
    /\ current_price' = NoPrice
    /\ indicators' = Pending
    /\ ncalls' = 0

\* GET /api/health
health_check ==
    /\ Idle
    /\ request' = "health"
    /\ upstream' = <<>>
    /\ outbound' = <<>>
    /\ steps' = <<>>
    /\ response' = Json(200, "ok", {"message", "status", "supported_markets", "usage"})
    /\ DropLocals
    /\ UNCHANGED <<deepseek_client, TWELVEDATA_API_KEY>>

\* GET /api/stock/<region>/<code>
get_stock_quote ==
    /\ Idle
    /\ \E r \in QuoteReplies, jsonIsRequestError \in BOOLEAN :
        /\ request' = "stock"
        /\ upstream' = <<r>>
        /\ outbound' = <<"quote">>
        /\ steps' = <<"quote">>
        /\ response' = Proxy(r, jsonIsRequestError, {"status", "region", "symbol", "data"})
        /\ DropLocals
        /\ UNCHANGED <<deepseek_client, TWELVEDATA_API_KEY>>

\* GET /api/historical/<region>/<code>
get_historical_data ==
    /\ Idle
    /\ \E r \in QuoteReplies, jsonIsRequestError \in BOOLEAN :
        /\ request' = "historical"
        /\ upstream' = <<r>>
        /\ outbound' = <<"kline">>
        /\ steps' = <<"kline">>
        /\ response' = Proxy(r, jsonIsRequestError,
                             {"status", "region", "symbol", "interval", "data"})
        /\ DropLocals
        /\ UNCHANGED <<deepseek_client, TWELVEDATA_API_KEY>>

-----------------------------------------------------------------------------
(* GET /api/search/<query>.  A string is the sequence of its characters.    *)

LowerCase == <<"a", "c", "d", "e", "i", "m", "n", "s", "t", "u", "x", "y">>

UpperCase == <<"A", "C", "D", "E", "I", "M", "N", "S", "T", "U", "X", "Y">>

\* str.upper(), character by character
UpperChar(ch) ==
    IF \E i \in 1..Len(LowerCase) : LowerCase[i] = ch
    THEN UpperCase[CHOOSE i \in 1..Len(LowerCase) : LowerCase[i] = ch]
    ELSE ch

Upper(s) == [i \in 1..Len(s) |-> UpperChar(s[i])]

\* Python's `sub in s` on strings
Contains(s, sub) ==
    \E i \in 0..(Len(s) - Len(sub)) : SubSeq(s, i + 1, i + Len(sub)) = sub

\* an item of the provider's list: the three fields the filter reads ("" when
\* the key is missing); `broken` when a field is null or the item is no object,
\* so that .get(...).upper() raises AttributeError
Item(country, exchange, mic_code) ==
    [country |-> country, exchange |-> exchange, mic_code |-> mic_code,
     broken |-> FALSE, symbol |-> 0]

BrokenItem == [Item(<<>>, <<>>, <<>>) EXCEPT !.broken = TRUE]

Items ==
    {Item(<<"U", "S">>, <<>>, <<>>),
     Item(<<"u", "s", "a">>, <<>>, <<>>),
     Item(<<"U", "n", "i", "t", "e", "d", " ", "S", "t", "a", "t", "e", "s">>, <<"N", "A", "S", "D", "A", "Q">>, <<"X", "N", "A", "S">>),
     Item(<<"C", "a", "n", "a", "d", "a">>, <<"T", "S", "X">>, <<"X", "T", "S", "E">>),
     Item(<<"C", "a", "n", "a", "d", "a">>, <<"N", "Y", "S", "E", " ", "A", "R", "C", "A">>, <<>>),
     Item(<<>>, <<"a", "m", "e", "x">>, <<>>),
     Item(<<"C", "a", "n", "a", "d", "a">>, <<"T", "S", "X">>, <<"x", "n", "y", "s">>),
     Item(<<"C", "a", "n", "a", "d", "a">>, <<"T", "S", "X">>, <<"X", "N", "A", "S", "X">>),
     Item(<<>>, <<>>, <<"X", "A", "S", "E">>),
     Item(<<"U", "S", "A", " ", "I", "n", "c">>, <<"L", "S", "E">>, <<"X", "L", "O", "N">>),
     BrokenItem}

\* variant: the country is tested with `in`, like the exchange and the MIC code
is_us_stock_country_substring(item) ==
    LET country == Upper(item.country)
        exchange == Upper(item.exchange)
        mic_code == Upper(item.mic_code)
    IN  \/ Contains(country, <<"U", "N", "I", "T", "E", "D", " ", "S", "T", "A", "T", "E", "S">>)
        \/ Contains(country, <<"U", "S">>)
        \/ Contains(exchange, <<"N", "A", "S", "D", "A", "Q">>)
        \/ Contains(exchange, <<"N", "Y", "S", "E">>)
        \/ Contains(exchange, <<"A", "M", "E", "X">>)
        \/ Contains(mic_code, <<"X", "N", "A", "S">>)
        \/ Contains(mic_code, <<"X", "N", "Y", "S">>)
        \/ Contains(mic_code, <<"X", "A", "S", "E">>)

\* lines 244-259
is_us_stock(item) ==
    LET country == Upper(item.country)
        exchange == Upper(item.exchange)
        mic_code == Upper(item.mic_code)
    IN  \/ country = <<"U", "N", "I", "T", "E", "D", " ", "S", "T", "A", "T", "E", "S">>
        \/ country = <<"U", "S">>
        \/ country = <<"U", "S", "A">>
        \/ Contains(exchange, <<"N", "A", "S", "D", "A", "Q">>)
        \/ Contains(exchange, <<"N", "Y", "S", "E">>)
        \/ Contains(exchange, <<"A", "M", "E", "X">>)
        \/ Contains(mic_code, <<"X", "N", "A", "S">>)
        \/ Contains(mic_code, <<"X", "N", "Y", "S">>)
        \/ Contains(mic_code, <<"X", "A", "S", "E">>)

\* line 265: the cap on the results
SearchLimit == 8

\* lines 265-266: if len(us_stocks) >= 8: break
LimitReached(us_stocks) == Len(us_stocks) >= SearchLimit

\* lines 242-266: the loop over data['data'] from item i on.  The value is the
\* list built, and whether an item raised.
RECURSIVE FilterLoop(_, _, _)
FilterLoop(list, i, us_stocks) ==
    IF i > Len(list) THEN [raised |-> FALSE, us_stocks |-> us_stocks]
    ELSE IF list[i].broken THEN [raised |-> TRUE, us_stocks |-> us_stocks]
    ELSE IF is_us_stock(list[i])
         THEN (LET more == Append(us_stocks, list[i])
               IN  IF LimitReached(more) THEN [raised |-> FALSE, us_stocks |-> more]
                   ELSE FilterLoop(list, i + 1, more))
         ELSE FilterLoop(list, i + 1, us_stocks)

(* What the search provider answers: net as above; json "invalid", "scalar" *)
(* (a number or null), "list", "object"; data "missing", "empty" (null, []) *)
(* or "list", with its items.  The HTTP status is not read.                 *)
SearchReply(net, json, data, items) ==
    [net |-> net, json |-> json, data |-> data, items |-> items]

\* n items, every m-th one a copy of a and the others copies of b, numbered
ResultList(n, a, b, m) ==
    [i \in 1..n |-> [(IF i % m = 0 THEN a ELSE b) EXCEPT !.symbol = i]]

SearchReplies ==
    {SearchReply("timeout", "invalid", "missing", <<>>),
     SearchReply("conn", "invalid", "missing", <<>>),
     SearchReply("ok", "invalid", "missing", <<>>),
     SearchReply("ok", "scalar", "missing", <<>>),
     SearchReply("ok", "list", "missing", <<>>),
     SearchReply("ok", "object", "missing", <<>>),
     SearchReply("ok", "object", "empty", <<>>)}
    \cup {SearchReply("ok", "object", "list", ResultList(n, a, b, m)) :
              n \in 1..MaxResults, a \in Items, b \in Items, m \in {2, 3}}

\* lines 281-284: RequestException, then Exception; both bodies hold only "error"
SearchExcept(r, jsonIsRequestError) ==
    IF r.net # "ok" \/ (r.json = "invalid" /\ jsonIsRequestError)
    THEN Json(502, "", {"error"})
    ELSE Json(500, "", {"error"})

\* lines 229-284
SearchResponse(key, r, jsonIsRequestError) ==
    IF ~key THEN Json(500, "", {"error"})
    ELSE IF r.net # "ok" \/ r.json \in {"invalid", "scalar"}
         THEN SearchExcept(r, jsonIsRequestError)
    ELSE IF r.json = "object" /\ r.data = "list"
         THEN (LET loop == FilterLoop(r.items, 1, <<>>)
               IN  IF loop.raised THEN SearchExcept(r, jsonIsRequestError)
                   ELSE JsonList(200, "success", {"data", "status", "message"}, loop.us_stocks))
    ELSE JsonList(200, "success", {"data", "status", "message"}, <<>>)

\* GET /api/search/<query>
search_symbols ==
    /\ Idle
    /\ \E r \in SearchReplies, jsonIsRequestError \in BOOLEAN :
        /\ request' = "search"
        /\ upstream' = IF TWELVEDATA_API_KEY THEN <<r>> ELSE <<>>
        /\ outbound' = IF TWELVEDATA_API_KEY THEN <<"search">> ELSE <<>>
        /\ steps' = outbound'
        /\ response' = SearchResponse(TWELVEDATA_API_KEY, r, jsonIsRequestError)
        /\ DropLocals
        /\ UNCHANGED <<deepseek_client, TWELVEDATA_API_KEY>>

-----------------------------------------------------------------------------
(* GET /api/indices *)

\* lines 293-297
indices_to_fetch == <<"SPX", "IXIC", "DJI">>

\* what the provider answers for one index: a failed reply, or code 0 with a
\* data value of any kind
IndexReplies == FailedReplies \cup {Answer(200, "zero", d) : d \in DataKinds}

\* line 313: isinstance(quote_data, dict)
IsDict(r) == r.data \in {"empty_object", "object"}

\* variant: without the isinstance test of line 313
IndexFetchedAnyData(r) == ~NetRaises(r) /\ ~BodyRaises(r) /\ ProviderOk(r)

\* lines 305-329: one pass of the loop body appends the index or only logs
IndexFetched(r) == ~NetRaises(r) /\ ~BodyRaises(r) /\ ProviderOk(r) /\ IsDict(r)

\* variant: an index whose fetch failed is requested a second time
RECURSIVE IndicesLoopRetry(_, _, _)
IndicesLoopRetry(replies, i, acc) ==
    IF i > Len(indices_to_fetch) THEN acc
    ELSE IndicesLoopRetry(replies, i + 1,
                          IF IndexFetched(replies[i])
                          THEN [attempted |-> Append(acc.attempted, indices_to_fetch[i]),
                                indices_data |-> Append(acc.indices_data, indices_to_fetch[i])]
                          ELSE [attempted |-> acc.attempted \o <<indices_to_fetch[i],
                                                                  indices_to_fetch[i]>>,
                                indices_data |-> acc.indices_data])

\* lines 301-329: the loop from index i on; `attempted` are the requests sent
RECURSIVE IndicesLoop(_, _, _)
IndicesLoop(replies, i, acc) ==
    IF i > Len(indices_to_fetch) THEN acc
    ELSE IndicesLoop(replies, i + 1,
                     [attempted |-> Append(acc.attempted, indices_to_fetch[i]),
                      indices_data |-> IF IndexFetched(replies[i])
                                       THEN Append(acc.indices_data, indices_to_fetch[i])
                                       ELSE acc.indices_data])

\* GET /api/indices
get_major_indices ==
    /\ Idle
    /\ \E replies \in [1..Len(indices_to_fetch) -> IndexReplies] :
        /\ request' = "indices"
        /\ upstream' = replies
        /\ LET loop == IndicesLoop(replies, 1, [attempted |-> <<>>, indices_data |-> <<>>])
           IN  /\ outbound' = loop.attempted
               /\ steps' = loop.attempted
               /\ response' = JsonList(200, "success", {"status", "data", "message"},
                                       loop.indices_data)
        /\ DropLocals
        /\ UNCHANGED <<deepseek_client, TWELVEDATA_API_KEY>>

-----------------------------------------------------------------------------
(* GET /api/analyze/<region>/<code> *)

\* the current prices a quote can carry under data["ld"]
QuotePrices ==
    {NoPrice, Price(0), Price(124000), [k |-> "str", v |-> 124000],
     [k |-> "badstr", v |-> 0], [k |-> "list", v |-> 0]}

AnalyzeQuoteReplies ==
    FailedReplies
    \cup {Answer(200, "zero", d) : d \in DataKinds \ {"object"}}
    \cup {Reply("ok", 200, "object", "zero", "object", ld, NoneFrame) : ld \in QuotePrices}

\* the frames pd.DataFrame(historical_list) builds from a non-empty list: bars
\* with all keys, bars lacking a key, bars with no keys, a null or an
\* unparseable close
BarLists ==
    {Frame(Ramp(N, 100000, 1000), BarCols) : N \in {1, 25, 60}}
    \cup {Frame(Ramp(25, 100000, 1000), cols) : cols \in {BarCols \ {"c"}, BarCols \ {"l"}, {}}}
    \cup {Spoil(Frame(Ramp(25, 100000, 1000), BarCols), "c", 3, x) : x \in {NaNCell, BadCell}}

AnalyzeHistReplies ==
    FailedReplies
    \cup {Answer(200, "zero", d) : d \in DataKinds \ {"list"}}
    \cup {Reply("ok", 200, "object", "zero", "list", NoPrice, f) : f \in BarLists}

\* what the AI provider's call and the parsing of its content do: the call
\* raises; there is no content to parse; the content is not JSON; the content
\* is JSON (of any shape)
AiOutcomes == {"raises", "no_content", "invalid_json", "json"}

Respond(resp) == [done |-> TRUE, response |-> resp]

Continue == [done |-> FALSE, response |-> NoResponse]

\* The try blocks of analyze_stock catch requests.exceptions.RequestException
\* only (lines 378, 409): a failed request gives 502, and so does a body that is
\* not JSON when `requests` raises that as a RequestException; any other
\* exception leaves the handler.
AnalyzeExcept(r, jsonIsRequestError) ==
    IF r.net # "ok" \/ (r.json = "invalid" /\ jsonIsRequestError)
    THEN Json(502, "error", {"status", "message"})
    ELSE Fault

\* lines 359-382: the quote step
QuoteStep(r, jsonIsRequestError) ==
    IF NetRaises(r) \/ BodyRaises(r) THEN Respond(AnalyzeExcept(r, jsonIsRequestError))
    ELSE IF ~ProviderOk(r) THEN Respond(Json(400, "error", {"status", "message"}))
    ELSE IF r.data \in {"null", "empty_list", "list", "scalar"}
         THEN Respond(Fault)   \* realtime_data.get raises AttributeError
    ELSE IF r.data = "object" /\ PriceTruthy(r.ld) THEN Continue
    ELSE Respond(Json(404, "error", {"status", "message"}))

\* variant: without the `if not historical_list` test of lines 400-404
HistoricalStepNoEmptyCheck(r, jsonIsRequestError) ==
    IF NetRaises(r) \/ BodyRaises(r) THEN Respond(AnalyzeExcept(r, jsonIsRequestError))
    ELSE IF ~ProviderOk(r) THEN Respond(Json(400, "error", {"status", "message"}))
    ELSE IF r.data \in {"object", "scalar"} THEN Respond(Fault)
    ELSE Continue

\* lines 388-413: the historical step
HistoricalStep(r, jsonIsRequestError) ==
    IF NetRaises(r) \/ BodyRaises(r) THEN Respond(AnalyzeExcept(r, jsonIsRequestError))
    ELSE IF ~ProviderOk(r) THEN Respond(Json(400, "error", {"status", "message"}))
    ELSE IF ~DataTruthy(r) THEN Respond(Json(404, "error", {"status", "message"}))
    ELSE IF r.data = "list" THEN Continue
    ELSE Respond(Fault)   \* pd.DataFrame(historical_list) raises ValueError

\* line 418: `if not indicators`: None and the empty dict are false
IndicatorsFalsy(ret) == ret.kind # "dict" \/ DOMAIN ret.ind = {}

\* lines 459-496: the AI step
AiStep(ai) ==
    CASE ai = "json" ->
            Json(200, "success", {"status", "symbol", "region", "technical_indicators",
                       "ai_analysis", "timestamp"})
      [] ai = "invalid_json" -> Json(500, "error", {"status", "message", "raw_response"})
      [] OTHER -> Json(500, "error", {"status", "message"})

Ran(stepsRun, calls, replies, resp, df, cp, ret) ==
    [steps |-> stepsRun, outbound |-> calls, upstream |-> replies, response |-> resp,
     df |-> df, cp |-> cp, ret |-> ret]

\* lines 348-496: the steps run, the calls made, the replies read, the response
analyze(client, rq, rh, ai, jsonIsRequestError) ==
    IF ~client
    THEN Ran(<<>>, <<>>, <<>>, Json(503, "error", {"status", "message"}), NoneFrame, NoPrice, Pending)
    ELSE LET q == QuoteStep(rq, jsonIsRequestError)
             h == HistoricalStep(rh, jsonIsRequestError)
             out == calculate_technical_indicators(rh.frame, rq.ld)
         IN  IF q.done
             THEN Ran(<<"quote">>, <<"quote">>, <<rq>>, q.response,
                      NoneFrame, NoPrice, Pending)
             ELSE IF h.done
             THEN Ran(<<"quote", "historical">>, <<"quote", "kline">>, <<rq, rh>>,
                      h.response, NoneFrame, NoPrice, Pending)
             ELSE IF IndicatorsFalsy(out.ret)
             THEN Ran(<<"quote", "historical", "indicators">>, <<"quote", "kline">>,
                      <<rq, rh>>, Json(500, "error", {"status", "message"}),
                      out.df, rq.ld, out.ret)
             ELSE Ran(<<"quote", "historical", "indicators", "ai">>,
                      <<"quote", "kline", "ai">>, <<rq, rh>>, AiStep(ai),
                      out.df, rq.ld, out.ret)

\* GET /api/analyze/<region>/<code>
analyze_stock ==
    /\ Idle
    /\ \E rq \in AnalyzeQuoteReplies, rh \in AnalyzeHistReplies, ai \in AiOutcomes,
          jsonIsRequestError \in BOOLEAN :
        LET ran == analyze(deepseek_client, rq, rh, ai, jsonIsRequestError)
        IN  /\ request' = "analyze"
            /\ upstream' = ran.upstream
            /\ outbound' = ran.outbound
            /\ steps' = ran.steps
            /\ response' = ran.response
            /\ historical_df' = ran.df
            /\ current_price' = ran.cp
            /\ indicators' = ran.ret
            /\ ncalls' = IF ran.ret = Pending THEN 0 ELSE 1
            /\ UNCHANGED <<deepseek_client, TWELVEDATA_API_KEY>>

-----------------------------------------------------------------------------
(* The server: the module globals are set once, when the process starts; *)
(* then requests are handled one at a time.                              *)

Init ==
    /\ deepseek_client \in BOOLEAN
    /\ TWELVEDATA_API_KEY \in BOOLEAN
    /\ historical_df = NoneFrame
    /\ current_price = NoPrice
    /\ indicators = Pending
    /\ ncalls = 0
    /\ Idle

\* the response is sent; the server waits for the next request, keeping nothing
\* of the one it handled
NextRequest ==
    /\ request # "none"
    /\ request' = "none"
    /\ upstream' = <<>>
    /\ outbound' = <<>>
    /\ steps' = <<>>
    /\ response' = NoResponse
    /\ DropLocals
    /\ UNCHANGED <<deepseek_client, TWELVEDATA_API_KEY>>

Next ==
    \/ NextRequest
    \/ health_check
    \/ get_stock_quote
    \/ get_historical_data
    \/ search_symbols
    \/ get_major_indices
    \/ analyze_stock

Spec == Init /\ [][Next]_vars

-----------------------------------------------------------------------------
(* Properties of calculate_technical_indicators, checked under SpecCalc *)

Returned == ncalls > 0

ReturnedSet == Returned /\ indicators.kind = "dict"

Periods == {20, 50, 200}

MaKey(P) == CASE P = 20 -> "ma_20" [] P = 50 -> "ma_50" [] P = 200 -> "ma_200"

NumericCloses == \A i \in 1..Len(historical_df.c) : IsNum(historical_df.c[i])

Abs(x) == IF x < 0 THEN -x ELSE x

\* C1: in a returned IndicatorSet, for every period P of 20, 50, 200: ma_P is
\* None when the series has fewer than P bars and is not None otherwise; on a
\* series whose closes are all numbers and N >= P, ma_P is a number of whole
\* cents within half a cent of the arithmetic mean of the last P closes.
C1_MovingAverageIsMeanOfLastP ==
    ReturnedSet =>
        \A P \in Periods :
            LET ma == indicators.ind[MaKey(P)]
                N == historical_df.n
                total == SumRange(historical_df.c, N - P + 1, N)
            IN  /\ N < P => ma.tag = "none"
                /\ N >= P => ma.tag # "none"
                /\ (N >= P /\ NumericCloses) =>
                       /\ ma.tag = "num"
                       /\ ma.d = 1
                       /\ ma.n % 10 = 0
                       /\ Abs(ma.n * P - total) <= 5 * P

C1_Witness ==
    /\ ReturnedSet
    /\ NumericCloses
    /\ historical_df.n = 200
    /\ indicators.ind["ma_200"].tag = "num"
    /\ indicators.ind["ma_200"].n > 0

VsLabelFollowsReturnedValues(vs, ma) ==
    LET price == indicators.ind["current_price"]
        above == price.tag = "num" /\ ma.tag = "num" /\ price.n > ma.n
    IN  /\ vs.tag = "none" <=> ma.tag = "none"
        /\ ma.tag # "none" => vs.tag = (IF above THEN "above" ELSE "below")

\* C2: in every returned IndicatorSet, vs_ma50 (vs_ma200) is None exactly when
\* the returned ma_50 (ma_200) is None, and otherwise is 'above' exactly when
\* the returned current_price is greater than the returned moving average,
\* 'below' otherwise -- also for an average of 0 and for values equal after
\* rounding.
C2_VsLabelsMatchReturnedValues ==
    ReturnedSet =>
        /\ VsLabelFollowsReturnedValues(indicators.ind["vs_ma50"], indicators.ind["ma_50"])
        /\ VsLabelFollowsReturnedValues(indicators.ind["vs_ma200"], indicators.ind["ma_200"])

\* C3: a call ends with None or with a dict holding all ten keys; it never
\* gives back a dict with some of the keys, whatever the columns, the cells and
\* the current price are.
C3_NoneOrAllTenFields ==
    Returned =>
        \/ indicators = NoneResult
        \/ /\ indicators.kind = "dict"
           /\ DOMAIN indicators.ind = AllKeys
           /\ Cardinality(AllKeys) = 10

C3_Witness ==
    /\ Returned
    /\ ~Guard(historical_df)
    /\ RaisesAt(historical_df, current_price) = "low_52w"
    /\ indicators = NoneResult

\* C4: a call on no DataFrame, or on one with no rows or no columns, returns
\* None whatever the current price is, and computes nothing: no 'returns'
\* column is added.
C4_EmptySeriesGivesNoData ==
    (Returned /\ (historical_df.isNone \/ historical_df.n = 0 \/ historical_df.cols = {})) =>
        /\ indicators = NoneResult
        /\ "returns" \notin historical_df.cols

C4_Witness ==
    /\ Returned
    /\ ~historical_df.isNone
    /\ historical_df.n = 0
    /\ historical_df.cols = BarCols
    /\ current_price = Price(124000)
    /\ indicators = NoneResult

ExampleInput ==
    /\ historical_df.n = 25
    /\ historical_df.c = Ramp(25, 100000, 1000)
    /\ BarCols \subseteq historical_df.cols
    /\ historical_df.h = Highs(historical_df.c)
    /\ historical_df.l = Lows(historical_df.c)
    /\ current_price = Price(124000)

ExampleOutput(ma_20) ==
    /\ indicators.kind = "dict"
    /\ indicators.ind["ma_20"] = Num(ma_20)
    /\ indicators.ind["ma_50"] = NoneVal
    /\ indicators.ind["ma_200"] = NoneVal
    /\ indicators.ind["vs_ma50"] = NoneVal
    /\ indicators.ind["rsi"].tag = "num"
    /\ indicators.ind["current_price"] = Num(124000)

\* C10 as stated: 25 closes 100.00, 101.00, ..., 124.00 and current price
\* 124.00 give ma_20 = 115.50, ma_50, ma_200 and vs_ma50 None, an rsi, and
\* current_price = 124.00.
C10_ExampleAsStated == (Returned /\ ExampleInput) => ExampleOutput(115500)

\* C10 amended: on that input ma_20 = 114.50, the mean of the last 20 closes
\* 105.00 .. 124.00; the other fields are as stated.
C10_ExampleAmended == (Returned /\ ExampleInput) => ExampleOutput(114500)

C10_Witness == Returned /\ ExampleInput /\ indicators.ind["rsi"] = Num(100000)

LastClose ==
    LET x == historical_df.c[historical_df.n]
    IN  IF IsNum(x) THEN Num(x) ELSE NaNVal

\* C11: in every returned IndicatorSet, when the current price argument is a
\* number -- 0 included -- the returned current_price is that number rounded to
\* 2 decimals, and when the argument is None it is the last close of the
\* series rounded to 2 decimals: the last close stands in only for an absent
\* argument.
C11_CurrentPriceIsTheSuppliedValue ==
    ReturnedSet =>
        LET returned == indicators.ind["current_price"]
        IN  /\ current_price.k = "num" => returned = Round2(Num(current_price.v))
            /\ current_price.k = "none" => returned = Round2(LastClose)

\* C12: a call, whether it returns an IndicatorSet or None, leaves the
\* DataFrame it was given as it found it -- the same columns, the same
\* values -- and a second call on the same object returns what the first
\* returned.
C12_CallLeavesSeriesUntouched ==
    [][/\ historical_df' = historical_df
       /\ ncalls >= 1 => indicators' = indicators]_vars

-----------------------------------------------------------------------------
(* Properties of the request handlers, checked under Spec *)

Handled == request # "none"

\* the request ended in an error: the handler's own error response, or an
\* exception that left the handler
Failed == response.fault \/ response.http >= 400

\* C5: whatever the providers answer, a request to the stock, historical,
\* search, indices or analyze endpoint that called a provider and failed ends
\* with a JSON body holding "status" and "message", and no exception leaves
\* the handler.
C5_ErrorsAreJsonWithStatusAndMessage ==
    (Handled /\ outbound # <<>> /\ Failed) =>
        /\ ~response.fault
        /\ {"status", "message"} \subseteq response.keys

AnalyzeOrder == <<"quote", "historical", "indicators", "ai">>

\* the outbound call a step of analyze_stock makes, if any
CallsOf(stepsRun) ==
    LET call(step) == CASE step = "quote" -> <<"quote">>
                        [] step = "historical" -> <<"kline">>
                        [] step = "ai" -> <<"ai">>
                        [] OTHER -> <<>>
    IN  (IF Len(stepsRun) >= 1 THEN call(stepsRun[1]) ELSE <<>>)
        \o (IF Len(stepsRun) >= 2 THEN call(stepsRun[2]) ELSE <<>>)
        \o (IF Len(stepsRun) >= 3 THEN call(stepsRun[3]) ELSE <<>>)
        \o (IF Len(stepsRun) >= 4 THEN call(stepsRun[4]) ELSE <<>>)

\* the provider answered 200 with a JSON object of code 0
Answered(r) ==
    r.net = "ok" /\ r.json = "object" /\ r.status = 200 /\ r.code = "zero"

\* the quote carried a non-empty current price
PriceObtained(r) ==
    /\ Answered(r)
    /\ r.data = "object"
    /\ r.ld.k # "none"
    /\ ~(r.ld.k = "num" /\ r.ld.v = 0)

\* the history carried a non-empty list of bars
BarsObtained(r) == Answered(r) /\ r.data = "list" /\ r.frame.n > 0

\* C6: an analyze request runs quote fetch, historical fetch, indicator
\* calculation, AI call in this order, each only after the one before it
\* succeeded; a failed step ends the request with an error and nothing runs
\* after it; the AI provider is called only with the client configured, a
\* non-empty price, a non-empty bar list and computed indicators; without the
\* client the request ends with 503 before any outbound call.
C6_AnalyzeStepsInOrder ==
    request = "analyze" =>
        /\ steps = SubSeq(AnalyzeOrder, 1, Len(steps))
        /\ outbound = CallsOf(steps)
        /\ Len(upstream) = Cardinality({i \in 1..Len(steps) : steps[i] \in {"quote", "historical"}})
        /\ Len(steps) >= 2 => PriceObtained(upstream[1])
        /\ Len(steps) >= 3 => BarsObtained(upstream[2])
        /\ Len(steps) >= 4 => indicators.kind = "dict"
        /\ ~Failed => (Len(steps) = 4 /\ response.status = "success")
        /\ (\E i \in 1..Len(outbound) : outbound[i] = "ai") =>
               /\ deepseek_client
               /\ PriceObtained(upstream[1])
               /\ BarsObtained(upstream[2])
               /\ indicators.kind = "dict"
        /\ ~deepseek_client =>
               (response.http = 503 /\ outbound = <<>> /\ steps = <<>>)
        /\ (deepseek_client /\ Len(steps) = 1) => (~PriceObtained(upstream[1]) /\ Failed)
        /\ Len(steps) = 2 => (~BarsObtained(upstream[2]) /\ Failed)
        /\ Len(steps) = 3 => (indicators.kind # "dict" /\ Failed)

C6_Witness ==
    /\ request = "analyze"
    /\ steps = AnalyzeOrder
    /\ outbound = <<"quote", "kline", "ai">>
    /\ response.http = 200

MarketCalls == {i \in 1..Len(outbound) : outbound[i] # "ai"}

AiCalls == {i \in 1..Len(outbound) : outbound[i] = "ai"}

NoCallRepeated == \A i, j \in 1..Len(outbound) : outbound[i] = outbound[j] => i = j

\* C7 as stated: every request makes at most two calls to market-data
\* providers and at most one to the AI provider, that one on the analyze
\* endpoint only, and no call is made twice.
C7_AtMostTwoMarketCalls ==
    Handled =>
        /\ Cardinality(MarketCalls) <= 2
        /\ Cardinality(AiCalls) <= 1
        /\ AiCalls # {} => request = "analyze"
        /\ NoCallRepeated

\* C7 amended: a request to the indices endpoint makes exactly three
\* market-data calls, one per index of the fixed list; a request to any other
\* endpoint makes at most two; at most one call goes to the AI provider, on
\* the analyze endpoint only; no call is made twice.
C7_CallsPerRequest ==
    Handled =>
        /\ request = "indices" => outbound = indices_to_fetch
        /\ request # "indices" => Cardinality(MarketCalls) <= 2
        /\ Cardinality(AiCalls) <= 1
        /\ AiCalls # {} => request = "analyze"
        /\ NoCallRepeated

C7_Witness ==
    /\ request = "indices"
    /\ Cardinality(MarketCalls) = 3
    /\ \E i \in 1..Len(upstream) : upstream[i].net = "timeout"

\* the fetch of an index succeeded with a data object
GotDataObject(r) == Answered(r) /\ r.data \in {"empty_object", "object"}

\* the names of the indices whose fetch succeeded with a data object, in list order
RECURSIVE FetchedFrom(_)
FetchedFrom(i) ==
    IF i > Len(indices_to_fetch) THEN <<>>
    ELSE (IF GotDataObject(upstream[i]) THEN <<indices_to_fetch[i]>> ELSE <<>>)
         \o FetchedFrom(i + 1)

\* C8: a request to the indices endpoint tries every index of the fixed list
\* once, in list order, whatever happened to the earlier ones; the response is
\* 200 with status success; its data are the indices whose fetch succeeded
\* with a data object, in list order, and no others.
C8_IndicesPartialSuccess ==
    request = "indices" =>
        /\ outbound = indices_to_fetch
        /\ Len(upstream) = Len(indices_to_fetch)
        /\ ~response.fault
        /\ response.http = 200
        /\ response.status = "success"
        /\ response.data = FetchedFrom(1)

C8_Witness ==
    /\ request = "indices"
    /\ upstream[1].net = "conn"
    /\ upstream[2].data = "null"
    /\ GotDataObject(upstream[3])
    /\ response.data = <<"DJI">>

UsCountries ==
    {<<"U", "S">>, <<"U", "S", "A">>,
     <<"U", "N", "I", "T", "E", "D", " ", "S", "T", "A", "T", "E", "S">>}

UsExchanges == {<<"N", "A", "S", "D", "A", "Q">>, <<"N", "Y", "S", "E">>, <<"A", "M", "E", "X">>}

UsMicCodes == {<<"X", "N", "A", "S">>, <<"X", "N", "Y", "S">>, <<"X", "A", "S", "E">>}

=============================================================================
